---- MODULE Spec2Model ----
(***************************************************************************)
(* The persist middleware of src/src/middleware/persist.ts around a store  *)
(* engine ('../vanilla', whose code is not part of the sources and is      *)
(* modelled from its documented contract).                                 *)
(*                                                                         *)
(* A store state is a JavaScript object, modelled as a function from a     *)
(* subset of Keys to values.  A value is a number 0..MaxVal or FnVal, a    *)
(* function-valued field (an action of the store), which JSON.stringify    *)
(* leaves out.  A stored string is modelled by what JSON.parse can read    *)
(* back from it.                                                           *)
(***************************************************************************)
EXTENDS Integers, Sequences, FiniteSets, Bags, TLC

\* ------------------------------------------------------------------ bounds
MaxVal == 1
MaxVersion == 1
MaxAsync == 2
MaxStages == 3

\* ---------------------------------------------------------------- values
Keys == {"a", "b"}
FnVal == -1
\* a function other than the one the initializer put in the state
OtherFn == -3
FnVals == {FnVal, OtherFn}
NoVersion == -1
DataVals == 0..MaxVal
Vals == DataVals \cup {FnVal}
Versions == 0..MaxVersion

\* field a holds a number; field b holds a number or a function
ValsOf(k) == IF k = "a" THEN DataVals ELSE {0, FnVal}

EmptyObj == [k \in {} |-> 0]
Objs == UNION {{o \in [D -> Vals] : \A k \in D : o[k] \in ValsOf(k)} : D \in SUBSET Keys}
\* the arguments of setState: one field to merge, or a whole state to replace
Partials == {o \in Objs : Cardinality(DOMAIN o) = 1 \/ DOMAIN o = Keys}

\* a JavaScript value on the hydration data path: null, undefined or an object
Null == [tag |-> "null", obj |-> EmptyObj]
Undefined == [tag |-> "undefined", obj |-> EmptyObj]
Obj(o) == [tag |-> "object", obj |-> o]

\* { ...base, ...over }
Spread(base, over) ==
  [k \in (DOMAIN base) \cup (DOMAIN over) |->
     IF k \in DOMAIN over THEN over[k] ELSE base[k]]

\* { ...v } of a value that may be null or undefined: spreads nothing then
SpreadValue(v) == IF v.tag = "object" THEN v.obj ELSE EmptyObj

Restrict(o, D) == [k \in (DOMAIN o) \cap D |-> o[k]]

\* ------------------------------------------------------- the store engine
\* a setState that merges even when it is told to replace
StoreSetStateMerges(cur, partial, replace) == Spread(cur, partial)

\* setState(partial, replace) of the store the middleware wraps
StoreSetState(cur, partial, replace) ==
  IF replace THEN partial ELSE Spread(cur, partial)

\* ------------------------------------------------------------ serializer
\* JSON.stringify of an envelope: function-valued fields are left out; the
\* text is the set of "key":value pairs of state and the version number
JsonPairs(o) == {<<k, o[k]>> : k \in {x \in DOMAIN o : o[x] \notin FnVals}}
JsonStringify(env) ==
  [wf |-> TRUE, st |-> JsonPairs(env.state), ver |-> env.version]

\* JSON.parse of a well-formed text
JsonObject(st) ==
  [k \in {p[1] : p \in st} |-> (CHOOSE p \in st : p[1] = k)[2]]
JsonParse(text) == [state |-> JsonObject(text.st), version |-> text.ver]

\* a text JSON.parse throws on
Garbage == [wf |-> FALSE, st |-> {}, ver |-> NoVersion]

\* ---------------------------------------------------------------- options
Initial == [k \in Keys |-> IF k = "a" THEN 0 ELSE FnVal]

\* options.partialize
Partialize(opts, o) ==
  IF opts.partialize = "identity" THEN o ELSE Restrict(o, {"a"})

\* options.serialize, under thenablify: ok = FALSE when it throws
Serialize(env, fault) ==
  IF fault = "serialize"
    THEN [ok |-> FALSE, text |-> Garbage]
    ELSE [ok |-> TRUE, text |-> JsonStringify(env)]

\* options.migrate(persistedState, version): a migration that rewrites
\* field a by a rule that depends on the version it migrates from
Migrate(o, version) ==
  [k \in DOMAIN o |->
     IF k = "a" THEN (o[k] + version + 1) % (MaxVal + 2) ELSE o[k]]

\* the envelope updatePersistentStorage serializes
Envelope(opts, cur) ==
  [state |-> Partialize(opts, Spread(EmptyObj, cur)), version |-> opts.version]

\* ------------------------------------------------------------------ state
VARIABLES
  phase,          \* "new" before persistImpl ran, then "unpersisted" or "live"
  async,          \* the storage backend returns promises
  options,        \* persistImpl's options
  persistentStorage, \* the storage handle, NoStorage when undefined
  storage,        \* per handle, the entry under options.name: {} or {text}
  state,          \* the store's state (parentGet())
  initialState,   \* what the store initializer returned
  initialStateFromPersistentStorage, \* last merged state, Undefined at first
  hasHydrated,
  hydrationListeners,       \* the set behind hydrationEmitter
  finishHydrationListeners, \* the set behind finishHydrationEmitter
  inflight,       \* bag of the hydrate() calls waiting on a promise of the backend
  pending,        \* bag of the setItem/removeItem calls an asynchronous backend has not applied yet
  storageTouched, \* getItem, setItem or removeItem was attempted
  last,           \* the operation that ran last
  call            \* what hydrate() did in it, NoCall if it did not run

\* the state of the persist middleware and of its records
persistVars == <<phase, async, options, persistentStorage, storage, state, initialState,
          initialStateFromPersistentStorage, hasHydrated, hydrationListeners,
          finishHydrationListeners, inflight, pending, storageTouched, last, call>>

\* a chain of then and catch calls on the thenable of one thenablify call
VARIABLES
  chain,       \* the handlers the caller will attach, in their order
  thenable,    \* the thenable the last call returned and the number of calls
  handlerLog,  \* the handlers invoked so far, with their arguments
  compared     \* the arguments of a call of the comparator and its result

pureVars == <<chain, thenable, handlerLog, compared>>

\* ------------------------------------------------- the equality comparator
MaxRef == 2

\* a JavaScript value as Object.is sees it: a primitive with its value, or a
\* reference with its identity
Prim(n) == [kind |-> "prim", id |-> n]
Ref(r) == [kind |-> "ref", id |-> r]
ShallowVals == {Prim(n) : n \in DataVals} \cup {Ref(r) : r \in 1..MaxRef}

\* the values referred to are objects with the same contents, { foo: 'bar' }
Content(r) == [foo |-> "bar"]

ShallowKeys == {"foo", "asd"}
PlainObjs == UNION {[D -> ShallowVals] : D \in SUBSET ShallowKeys}

\* the arguments of a call: two plain objects with their identities, which
\* are the same object when the identities are
ShallowArgs == {[id |-> i, obj |-> o] : i \in 1..2, o \in PlainObjs}

Is(x, y) == x = y

\* a comparison that descends into the values referred to
IsDeep(x, y) ==
  /\ x.kind = y.kind
  /\ IF x.kind = "prim" THEN x.id = y.id ELSE Content(x.id) = Content(y.id)

\* a comparator that falls through to reference equality
ShallowByReference(objA, objB) == objA.id = objB.id

\* a comparator that compares the values of the keys recursively
ShallowDeep(objA, objB) ==
  IF objA.id = objB.id THEN TRUE
  ELSE IF Cardinality(DOMAIN objA.obj) # Cardinality(DOMAIN objB.obj) THEN FALSE
  ELSE \A k \in DOMAIN objA.obj :
         k \in DOMAIN objB.obj /\ IsDeep(objA.obj[k], objB.obj[k])

\* shallow(objA, objB) on two plain objects
Shallow(objA, objB) ==
  IF objA.id = objB.id THEN TRUE
  ELSE IF Cardinality(DOMAIN objA.obj) # Cardinality(DOMAIN objB.obj) THEN FALSE
  ELSE \A k \in DOMAIN objA.obj :
         k \in DOMAIN objB.obj /\ Is(objA.obj[k], objB.obj[k])

NoCompare ==
  [ a |-> [id |-> 1, obj |-> <<>>], b |-> [id |-> 1, obj |-> <<>>],
    done |-> TRUE, result |-> TRUE ]

\* the store the middleware wraps, beside its state
VARIABLES
  storeListeners,  \* the store's listeners, each with the slice it selected last
  notified,    \* the listeners the last operation invoked
  destroyed    \* destroy() was called

storeVars == <<storeListeners, notified, destroyed>>

vars == <<persistVars, pureVars, storeVars>>

\* the listeners a caller subscribes: a plain one, and one with the selector
\* state => state.a
StoreListeners == {"plain", "selected"}
NoSlice == -2
NoListeners == [l \in {} |-> NoSlice]

SliceOf(st) == IF "a" \in DOMAIN st THEN st["a"] ELSE NoSlice

\* the store replaced its state by new: the slices its listeners hold
\* afterwards, and the listeners it invoked
Slices(ls, new) ==
  [l \in DOMAIN ls |-> IF l = "selected" THEN SliceOf(new) ELSE ls[l]]

Invoked(ls, new) ==
  {l \in DOMAIN ls : l = "plain" \/ ls[l] # SliceOf(new)}

\* the operation set the state of the store
StoreNotifies ==
  /\ storeListeners' = Slices(storeListeners, state')
  /\ notified' = Invoked(storeListeners, state')
  /\ UNCHANGED destroyed

\* the operation did not set the state of the store
Quiet ==
  /\ notified' = {}
  /\ UNCHANGED <<storeListeners, destroyed>>

NotifyIf(setCalled) == IF setCalled THEN StoreNotifies ELSE Quiet

Handles == {"s1", "s2"}
NoStorage == "undefined"
Listeners == {"l1", "l2"}

\* options.getStorage under tryElse: the handle, NoStorage when the provider
\* throws or returns nothing
GetStorage(provider) ==
  IF provider \in Handles THEN provider ELSE NoStorage

\* the user functions among the options that may throw when called
Faults == {"none", "serialize", "migrate", "merge"}

\* what may throw on the write path: options.serialize, the backend's setItem
WriteFaults == {"none", "serialize", "setItem"}

defaultOptions ==
  [ getStorage |-> "s1", partialize |-> "identity", version |-> 0,
    migrate |-> FALSE ]

\* the options a store is constructed with
OptionSets ==
  { o \in [ getStorage : {defaultOptions.getStorage, "throws", "nothing"},
            partialize : {"identity", "pickA"},
            version : {defaultOptions.version},
            migrate : BOOLEAN ] :
      o.getStorage \notin Handles
         => (o.partialize = defaultOptions.partialize /\ ~o.migrate) }

\* what the storage may hold when the store is constructed
StoredText(v) == [wf |-> TRUE, st |-> JsonPairs([a |-> 1, b |-> 0]), ver |-> v]
StoredTexts == {Garbage} \cup {StoredText(v) : v \in Versions \cup {NoVersion}}

InitialStorage(provider) ==
  IF provider \in Handles
    THEN {[h \in Handles |-> IF h = provider THEN item ELSE {}] :
            item \in {{}} \cup {{t} : t \in StoredTexts}}
    ELSE {[h \in Handles |-> {}]}

\* ------------------------------------------------------------ thenablify
\* a thenablify that throws every error to the caller at once
ThenablifyThrows(failed, throwImmediately) ==
  IF ~failed THEN "fulfilled" ELSE "thrown"

\* thenablify(f, throwImmediately)(...a) for a synchronous f: a thenable that
\* holds the result, a thenable that holds the error until the next catch,
\* or the error thrown to the caller at once
Thenablify(failed, throwImmediately) ==
  IF ~failed THEN "fulfilled"
  ELSE IF throwImmediately THEN "thrown"
  ELSE "rejected"

\* the function f names itself by n: called, it returns n or throws n
Settle(throws, n) ==
  [status |-> Thenablify(throws, FALSE), value |-> n]

NoThenable == [status |-> "none", value |-> 0]

\* a then that calls its handler whatever the thenable holds
ThenAlways(t, throws, n) ==
  [invoked |-> TRUE, arg |-> t.value, result |-> Settle(throws, n)]

\* thenable.then(f): the fulfilled thenable calls thenablify(f)(r), the
\* rejected one returns this
ThenOf(t, throws, n) ==
  IF t.status = "fulfilled"
    THEN [invoked |-> TRUE, arg |-> t.value, result |-> Settle(throws, n)]
    ELSE [invoked |-> FALSE, arg |-> t.value, result |-> t]

\* thenable.catch(f): the rejected thenable calls thenablify(f)(error), the
\* fulfilled one returns this
CatchOf(t, throws, n) ==
  IF t.status = "rejected"
    THEN [invoked |-> TRUE, arg |-> t.value, result |-> Settle(throws, n)]
    ELSE [invoked |-> FALSE, arg |-> t.value, result |-> t]

\* the chains a caller builds: a first function and the handlers of the then
\* and catch calls that follow, each returning or throwing
Handlers == [kind : {"then", "catch"}, throws : BOOLEAN]
Chains ==
  [first : BOOLEAN, stages : UNION {[1..n -> Handlers] : n \in 0..MaxStages}]
NoChain == [first |-> FALSE, stages |-> <<>>]

\* ------------------------------------------------- the hydration pipeline
NoEnvelope == [state |-> EmptyObj, version |-> NoVersion]

\* persistentStorageGetItem under thenablify: persistentStorage!.getItem
\* throws a TypeError when the handle is undefined
GetItem(h, store) ==
  IF h = NoStorage THEN [ok |-> FALSE, item |-> {}]
                   ELSE [ok |-> TRUE, item |-> store[h]]

\* serialized !== null ? options.deserialize(serialized) : null
Deserialize(item) ==
  IF item = {}
    THEN [ok |-> TRUE, isNull |-> TRUE, env |-> NoEnvelope]
    ELSE LET text == CHOOSE t \in item : TRUE IN
         IF text.wf
           THEN [ok |-> TRUE, isNull |-> FALSE, env |-> JsonParse(text)]
           ELSE [ok |-> FALSE, isNull |-> FALSE, env |-> NoEnvelope]

\* a version stage that hands migrate the target version
ResolveVersionTarget(opts, d, fault) ==
  LET R(ok, val, mig, err) ==
        [ok |-> ok, val |-> val, migrateCalled |-> mig, errorDiag |-> err]
  IN IF d.isNull THEN R(TRUE, Null, FALSE, FALSE)
     ELSE IF d.env.version = NoVersion THEN R(TRUE, Obj(d.env.state), FALSE, FALSE)
     ELSE IF d.env.version = opts.version THEN R(TRUE, Obj(d.env.state), FALSE, FALSE)
     ELSE IF ~opts.migrate THEN R(TRUE, Undefined, FALSE, TRUE)
     ELSE IF fault = "migrate" THEN R(FALSE, Undefined, TRUE, FALSE)
     ELSE R(TRUE, Obj(Migrate(d.env.state, opts.version)), TRUE, FALSE)

\* a version stage that takes an absent version for a mismatch
ResolveVersionStrict(opts, d, fault) ==
  LET R(ok, val, mig, err) ==
        [ok |-> ok, val |-> val, migrateCalled |-> mig, errorDiag |-> err]
  IN IF d.isNull THEN R(TRUE, Null, FALSE, FALSE)
     ELSE IF d.env.version = opts.version THEN R(TRUE, Obj(d.env.state), FALSE, FALSE)
     ELSE IF ~opts.migrate THEN R(TRUE, Undefined, FALSE, TRUE)
     ELSE IF fault = "migrate" THEN R(FALSE, Undefined, TRUE, FALSE)
     ELSE R(TRUE, Obj(Migrate(d.env.state, d.env.version)), TRUE, FALSE)

\* the version stage: the value handed to merge, whether migrate was called,
\* whether console.error was called
ResolveVersion(opts, d, fault) ==
  LET R(ok, val, mig, err) ==
        [ok |-> ok, val |-> val, migrateCalled |-> mig, errorDiag |-> err]
  IN IF d.isNull THEN R(TRUE, Null, FALSE, FALSE)
     ELSE IF d.env.version = NoVersion THEN R(TRUE, Obj(d.env.state), FALSE, FALSE)
     ELSE IF d.env.version = opts.version THEN R(TRUE, Obj(d.env.state), FALSE, FALSE)
     ELSE IF ~opts.migrate THEN R(TRUE, Undefined, FALSE, TRUE)
     ELSE IF fault = "migrate" THEN R(FALSE, Undefined, TRUE, FALSE)
     ELSE R(TRUE, Obj(Migrate(d.env.state, d.env.version)), TRUE, FALSE)

\* a merge that keeps the stored state alone
MergePersistedOnly(val, init, fault) ==
  IF fault = "merge"
    THEN [ok |-> FALSE, obj |-> init]
    ELSE [ok |-> TRUE, obj |-> SpreadValue(val)]

\* options.merge(migratedState, initialState); the default spreads both
Merge(val, init, fault) ==
  IF fault = "merge"
    THEN [ok |-> FALSE, obj |-> init]
    ELSE [ok |-> TRUE, obj |-> Spread(init, SpreadValue(val))]

\* an updatePersistentStorage whose chain holds its error for a catch
UpdatePersistentStorageCaught(opts, h, cur, fault) ==
  LET s == Serialize(Envelope(opts, cur), fault)
      at == IF ~s.ok THEN "serialize"
            ELSE IF h = NoStorage \/ fault = "setItem" THEN "setItem"
            ELSE "none"
  IN [ ok |-> at = "none", at |-> at, text |-> s.text,
       outcome |-> Thenablify(at # "none", FALSE) ]

\* updatePersistentStorage up to the setItem call: the text handed to
\* setItem, or the stage that threw (setItem throws when the handle is
\* undefined or the backend refuses the write)
UpdatePersistentStorage(opts, h, cur, fault) ==
  LET s == Serialize(Envelope(opts, cur), fault)
      at == IF ~s.ok THEN "serialize"
            ELSE IF h = NoStorage \/ fault = "setItem" THEN "setItem"
            ELSE "none"
  IN [ ok |-> at = "none", at |-> at, text |-> s.text,
       outcome |-> Thenablify(at # "none", TRUE) ]

\* the then-stages of hydrate from the getItem result to the setItem call
Stages(opts, h, got, init, fault) ==
  LET d == Deserialize(got.item)
      r == ResolveVersion(opts, d, fault)
      m == Merge(r.val, init, fault)
      w == UpdatePersistentStorage(opts, h, m.obj, fault)
      dOk == got.ok /\ d.ok
      rOk == dOk /\ r.ok
      mOk == rOk /\ m.ok
      failedAt == IF ~got.ok THEN "getItem"
                  ELSE IF ~d.ok THEN "deserialize"
                  ELSE IF ~r.ok THEN "migrate"
                  ELSE IF ~m.ok THEN "merge"
                  ELSE w.at
  IN [ failedAt |-> failedAt,
       outcome |-> Thenablify(failedAt # "none", FALSE),
       version |-> IF dOk /\ ~d.isNull THEN d.env.version ELSE NoVersion,
       isNull |-> dOk /\ d.isNull,
       migrateCalled |-> dOk /\ r.migrateCalled,
       errorDiag |-> dOk /\ r.errorDiag,
       mergeCalled |-> rOk,
       mergeArg |-> IF rOk THEN r.val ELSE Undefined,
       applied |-> mOk,
       merged |-> IF mOk THEN m.obj ELSE EmptyObj,
       setItem |-> mOk /\ w.ok,
       text |-> w.text ]

\* ------------------------------------------------------ records of calls
\* what hydrate() did in the last step: from the call to its first promise,
\* or from one promise to the next, or to the end of the chain; after a
\* setState, failedAt tells where its write failed; after a setOptions,
\* getStorages is the number of calls of the storage provider
NoCall ==
  [ stage |-> "none", manual |-> FALSE, cb |-> FALSE,
    hydrateSeen |-> {}, hydrateArg |-> Undefined, isNull |-> FALSE, version |-> NoVersion,
    failedAt |-> "none",
    migrateCalled |-> FALSE, errorDiag |-> FALSE, mergeCalled |-> FALSE,
    mergeArg |-> Undefined, merged |-> Undefined, getItems |-> 0,
    setItems |-> 0, cbLog |-> <<>>, finishEmitted |-> FALSE,
    finishSeen |-> {}, finishArg |-> Undefined, flips |-> 0,
    getStorages |-> 0 ]

\* hydrate() up to the getItem call: hasHydrated = false, the hydration
\* listeners are emitted, onRehydrateStorage is asked for its callback
NewCall(manual, cb, h, listeners, cur) ==
  [ NoCall EXCEPT
      !.stage = "get", !.manual = manual, !.cb = cb,
      !.hydrateSeen = listeners,
      !.hydrateArg = IF listeners = {} THEN Undefined ELSE Obj(cur),
      !.getItems = IF h = NoStorage THEN 0 ELSE 1 ]

AfterStages(rec, p) ==
  [ rec EXCEPT
      !.stage = IF p.setItem THEN "write" ELSE "catch",
      !.isNull = p.isNull, !.version = p.version,
      !.failedAt = p.failedAt, !.migrateCalled = p.migrateCalled,
      !.errorDiag = p.errorDiag, !.mergeCalled = p.mergeCalled,
      !.mergeArg = p.mergeArg,
      !.merged = IF p.applied THEN Obj(p.merged) ELSE Undefined,
      !.setItems = IF p.setItem THEN 1 ELSE 0 ]

\* a last then-stage that sets the flag and emits before it calls back
FinalOrderFlagFirst == <<"hasHydrated", "emit", "callback">>

\* the statements of the last then-stage of hydrate, in their order
FinalOrder == <<"callback", "hasHydrated", "emit">>

Before(order, x, y) ==
  \E i, j \in DOMAIN order : i < j /\ order[i] = x /\ order[j] = y

\* the last then-stage of hydrate: what the callback is called with and what
\* it can observe, the flag, the finish listeners
FinalStage(rec, hh, isps, listeners) ==
  [ rec EXCEPT
      !.stage = "done",
      !.cbLog = IF rec.cb
                  THEN Append(rec.cbLog,
                         [ok |-> TRUE, st |-> isps,
                          hh |-> (hh \/ Before(FinalOrder, "hasHydrated", "callback")),
                          emitted |-> Before(FinalOrder, "emit", "callback")])
                  ELSE rec.cbLog,
      !.flips = IF hh THEN 0 ELSE 1,
      !.finishEmitted = TRUE,
      !.finishSeen = listeners, !.finishArg = isps ]

\* the catch at the end of the chain
CatchStage(rec, hh) ==
  [ rec EXCEPT
      !.stage = "failed",
      !.cbLog = IF rec.cb
                  THEN Append(rec.cbLog,
                         [ok |-> FALSE, st |-> Undefined, hh |-> hh,
                          emitted |-> FALSE])
                  ELSE rec.cbLog ]

\* the callback throws when the last then-stage calls it
CallbackThrows(cb, fault) == cb /\ fault = "callback"

\* the flag after a last then-stage whose callback threw: the statements
\* after the call did not run
FlagWhenThrown(hh) == hh \/ Before(FinalOrder, "hasHydrated", "callback")

\* the last then-stage of hydrate when the callback throws: the statements
\* before the call have run; the thenable of a synchronous write-back throws
\* the error at once, out of hydrate, while the promise of an asynchronous
\* one is rejected and the catch at the end of the chain calls the callback
\* again, with the error
FinalStageThrows(rec, hh, isps, listeners, native) ==
  LET emitted == Before(FinalOrder, "emit", "callback")
      flagged == Before(FinalOrder, "hasHydrated", "callback")
      called ==
        [ rec EXCEPT
            !.failedAt = "callback",
            !.cbLog = Append(rec.cbLog,
                        [ok |-> TRUE, st |-> isps, hh |-> (hh \/ flagged),
                         emitted |-> emitted]),
            !.flips = IF flagged /\ ~hh THEN 1 ELSE 0,
            !.finishEmitted = emitted,
            !.finishSeen = IF emitted THEN listeners ELSE {},
            !.finishArg = IF emitted THEN isps ELSE Undefined ]
  IN IF native THEN CatchStage(called, FlagWhenThrown(hh))
               ELSE [called EXCEPT !.stage = "thrown"]

\* the operation that ran last: whether it threw to its caller, whether it
\* called console.warn
NoOp == [op |-> "none", threw |-> FALSE, warned |-> FALSE]

Op(op, threw, warned) ==
  [op |-> op, threw |-> threw, warned |-> warned]

\* ------------------------------------------------------------------- Init
InitCommon ==
  /\ phase = "new"
  /\ persistentStorage = NoStorage
  /\ state = EmptyObj
  /\ initialState = EmptyObj
  /\ initialStateFromPersistentStorage = Undefined
  /\ hasHydrated = FALSE
  /\ hydrationListeners = {}
  /\ finishHydrationListeners = {}
  /\ inflight = EmptyBag
  /\ pending = EmptyBag
  /\ storageTouched = FALSE
  /\ last = NoOp
  /\ call = NoCall

\* no chain of thenables is under way, nobody listens to the store
InitPure ==
  /\ chain = NoChain
  /\ thenable = NoThenable
  /\ handlerLog = <<>>
  /\ compared = NoCompare
  /\ storeListeners = NoListeners
  /\ notified = {}
  /\ destroyed = FALSE

\* a store about to be created over a synchronous backend
Init ==
  /\ async = FALSE
  /\ options \in OptionSets
  /\ storage \in InitialStorage(options.getStorage)
  /\ InitCommon
  /\ InitPure

\* a store about to be created with the default options over a backend that
\* is synchronous or asynchronous
InitAsync ==
  /\ async \in BOOLEAN
  /\ options = defaultOptions
  /\ storage \in {[h \in Handles |-> IF h = options.getStorage THEN item ELSE {}] :
                     item \in {{}, {Garbage}, {StoredText(defaultOptions.version)}}}
  /\ InitCommon
  /\ InitPure

\* a store about to be created over a synchronous backend with a migrate
\* function configured
InitEvents ==
  /\ async = FALSE
  /\ options = [defaultOptions EXCEPT !.migrate = TRUE]
  /\ storage \in InitialStorage(options.getStorage)
  /\ InitCommon
  /\ InitPure

\* ---------------------------------------------------------------- hydrate
\* a hydrate() that leaves the flag as it finds it
ResetFlagMissing(hh) == hh

\* hasHydrated = false, the first statement of hydrate()
ResetFlag(hh) == FALSE

\* a hydrate() that falls back to the initial state when a stage fails
HydrateSyncResets(manual, opts, h, init, cur, cb, fault) ==
  \E got \in {GetItem(h, storage)} :
  \E p \in {Stages(opts, h, got, init, fault)} :
  \E rec \in {AfterStages(NewCall(manual, cb, h, hydrationListeners, cur), p)} :
  \E isps \in {IF p.applied THEN Obj(p.merged)
                            ELSE initialStateFromPersistentStorage} :
  \E thrown \in {p.outcome = "fulfilled" /\ CallbackThrows(cb, fault)} :
     /\ storage' = IF p.setItem THEN [storage EXCEPT ![h] = {p.text}]
                                ELSE storage
     /\ initialStateFromPersistentStorage' = isps
     /\ hasHydrated' = IF thrown THEN FlagWhenThrown(ResetFlag(hasHydrated))
                        ELSE IF p.outcome = "fulfilled" THEN TRUE
                        ELSE ResetFlag(hasHydrated)
     /\ call' = IF thrown
                  THEN FinalStageThrows(rec, ResetFlag(hasHydrated), isps,
                                        finishHydrationListeners, FALSE)
                ELSE IF p.outcome = "fulfilled"
                  THEN FinalStage(rec, ResetFlag(hasHydrated), isps,
                                  finishHydrationListeners)
                ELSE IF p.outcome = "rejected"
                  THEN CatchStage(rec, ResetFlag(hasHydrated))
                ELSE [rec EXCEPT !.stage = "thrown"]
     /\ state' = IF manual THEN (IF p.applied THEN p.merged ELSE init)
                 ELSE IF p.outcome = "thrown" \/ thrown THEN cur
                 ELSE IF isps.tag = "object" THEN isps.obj ELSE init
     /\ storageTouched' = (storageTouched \/ h # NoStorage)
     /\ last' = Op(IF manual THEN "rehydrate" ELSE "construct",
                   p.outcome = "thrown" \/ thrown, FALSE)
     /\ UNCHANGED <<inflight, pending>>

\* hydrate() against a synchronous backend: the whole chain runs in the call
HydrateSync(manual, opts, h, init, cur, cb, fault) ==
  \E got \in {GetItem(h, storage)} :
  \E p \in {Stages(opts, h, got, init, fault)} :
  \E rec \in {AfterStages(NewCall(manual, cb, h, hydrationListeners, cur), p)} :
  \E isps \in {IF p.applied THEN Obj(p.merged)
                            ELSE initialStateFromPersistentStorage} :
  \E thrown \in {p.outcome = "fulfilled" /\ CallbackThrows(cb, fault)} :
     /\ storage' = IF p.setItem THEN [storage EXCEPT ![h] = {p.text}]
                                ELSE storage
     /\ initialStateFromPersistentStorage' = isps
     /\ hasHydrated' = IF thrown THEN FlagWhenThrown(ResetFlag(hasHydrated))
                        ELSE IF p.outcome = "fulfilled" THEN TRUE
                        ELSE ResetFlag(hasHydrated)
     /\ call' = IF thrown
                  THEN FinalStageThrows(rec, ResetFlag(hasHydrated), isps,
                                        finishHydrationListeners, FALSE)
                ELSE IF p.outcome = "fulfilled"
                  THEN FinalStage(rec, ResetFlag(hasHydrated), isps,
                                  finishHydrationListeners)
                ELSE IF p.outcome = "rejected"
                  THEN CatchStage(rec, ResetFlag(hasHydrated))
                ELSE [rec EXCEPT !.stage = "thrown"]
     /\ state' = IF manual THEN (IF p.applied THEN p.merged ELSE cur)
                 ELSE IF p.outcome = "thrown" \/ thrown THEN cur
                 ELSE IF isps.tag = "object" THEN isps.obj ELSE init
     /\ storageTouched' = (storageTouched \/ h # NoStorage)
     /\ last' = Op(IF manual THEN "rehydrate" ELSE "construct",
                   p.outcome = "thrown" \/ thrown, FALSE)
     /\ UNCHANGED <<inflight, pending>>

\* a call of hydrate() that waits for the promise of getItem ("get") or for
\* the promise of the write-back's setItem ("write")
Waiting(stage, cb, h, text) == [stage |-> stage, cb |-> cb, h |-> h, text |-> text]

\* the promises the backend has not settled yet
Outstanding == BagCardinality(inflight) + BagCardinality(pending)

\* hydrate() against an asynchronous backend: getItem returns a promise and
\* the chain waits for it; a getItem that throws is caught at once
HydrateStart(manual, opts, h, init, cur, cb) ==
  \E rec \in {NewCall(manual, cb, h, hydrationListeners, cur)} :
  \E outcome \in {Thenablify(h = NoStorage, FALSE)} :
  /\ hasHydrated' = ResetFlag(hasHydrated)
  /\ state' = IF manual \/ outcome = "thrown" THEN cur ELSE init
  /\ IF outcome = "fulfilled"
       THEN /\ call' = rec
            /\ inflight' = inflight (+) SetToBag({Waiting("get", cb, h, Garbage)})
       ELSE /\ call' = IF outcome = "rejected"
                         THEN CatchStage([rec EXCEPT !.failedAt = "getItem"],
                                         ResetFlag(hasHydrated))
                         ELSE [rec EXCEPT !.failedAt = "getItem", !.stage = "thrown"]
            /\ inflight' = inflight
  /\ storageTouched' = (storageTouched \/ h # NoStorage)
  /\ last' = Op(IF manual THEN "rehydrate" ELSE "construct",
                outcome = "thrown", FALSE)
  /\ UNCHANGED <<storage, initialStateFromPersistentStorage, pending>>

\* a hydrate whose chain always waits for a later turn of the event loop
HydrateDeferred(manual, opts, h, init, cur, cb, fault) ==
  /\ Outstanding < MaxAsync
  /\ HydrateStart(manual, opts, h, init, cur, cb)

Hydrate(manual, opts, h, init, cur, cb, fault) ==
  IF async THEN HydrateStart(manual, opts, h, init, cur, cb)
           ELSE HydrateSync(manual, opts, h, init, cur, cb, fault)

\* a pipeline whose parentSet call fails once the store is destroyed
HydrateResumeAborts(w, fault) ==
  /\ UNCHANGED pureVars
  /\ BagIn(w, inflight)
  /\ w.stage = "get"
  /\ \E got \in {GetItem(w.h, storage)} :
     \E p \in {Stages(options, persistentStorage, got, initialState,
                        IF destroyed THEN "merge" ELSE fault)} :
     \E rec \in {AfterStages([NoCall EXCEPT !.cb = w.cb], p)} :
        /\ state' = IF p.applied THEN p.merged ELSE state
        /\ initialStateFromPersistentStorage' =
             IF p.applied THEN Obj(p.merged) ELSE initialStateFromPersistentStorage
        /\ IF p.setItem
             THEN /\ inflight' = (inflight (-) SetToBag({w})) (+)
                        SetToBag({Waiting("write", w.cb, persistentStorage, p.text)})
                  /\ call' = rec
             ELSE /\ inflight' = inflight (-) SetToBag({w})
                  /\ call' = CatchStage(rec, hasHydrated)
  /\ last' = Op("resume", FALSE, FALSE)
  /\ UNCHANGED <<phase, async, options, persistentStorage, storage, initialState,
                 hasHydrated, hydrationListeners, finishHydrationListeners,
                 pending, storageTouched>>
  /\ NotifyIf(call'.merged.tag = "object")

\* a pipeline that merges the stored state onto the current state
HydrateResumeOntoCurrent(w, fault) ==
  /\ UNCHANGED pureVars
  /\ BagIn(w, inflight)
  /\ w.stage = "get"
  /\ \E got \in {GetItem(w.h, storage)} :
     \E p \in {Stages(options, persistentStorage, got, state, fault)} :
     \E rec \in {AfterStages([NoCall EXCEPT !.cb = w.cb], p)} :
        /\ state' = IF p.applied THEN p.merged ELSE state
        /\ initialStateFromPersistentStorage' =
             IF p.applied THEN Obj(p.merged) ELSE initialStateFromPersistentStorage
        /\ IF p.setItem
             THEN /\ inflight' = (inflight (-) SetToBag({w})) (+)
                        SetToBag({Waiting("write", w.cb, persistentStorage, p.text)})
                  /\ call' = rec
             ELSE /\ inflight' = inflight (-) SetToBag({w})
                  /\ call' = CatchStage(rec, hasHydrated)
  /\ last' = Op("resume", FALSE, FALSE)
  /\ UNCHANGED <<phase, async, options, persistentStorage, storage, initialState,
                 hasHydrated, hydrationListeners, finishHydrationListeners,
                 pending, storageTouched>>
  /\ NotifyIf(call'.merged.tag = "object")

\* the getItem promise of call w resolves: deserialize, version stage, merge,
\* parentSet and the write-back's setItem call
HydrateResume(w, fault) ==
  /\ UNCHANGED pureVars
  /\ BagIn(w, inflight)
  /\ w.stage = "get"
  /\ \E got \in {GetItem(w.h, storage)} :
     \E p \in {Stages(options, persistentStorage, got, initialState, fault)} :
     \E rec \in {AfterStages([NoCall EXCEPT !.cb = w.cb], p)} :
        /\ state' = IF p.applied THEN p.merged ELSE state
        /\ initialStateFromPersistentStorage' =
             IF p.applied THEN Obj(p.merged) ELSE initialStateFromPersistentStorage
        /\ IF p.setItem
             THEN /\ inflight' = (inflight (-) SetToBag({w})) (+)
                        SetToBag({Waiting("write", w.cb, persistentStorage, p.text)})
                  /\ call' = rec
             ELSE /\ inflight' = inflight (-) SetToBag({w})
                  /\ call' = CatchStage(rec, hasHydrated)
  /\ last' = Op("resume", FALSE, FALSE)
  /\ UNCHANGED <<phase, async, options, persistentStorage, storage, initialState,
                 hasHydrated, hydrationListeners, finishHydrationListeners,
                 pending, storageTouched>>
  /\ NotifyIf(call'.merged.tag = "object")

\* a last then-stage that runs before the write-back is in the storage
HydrateFinishUnwritten(w, fault) ==
  /\ UNCHANGED pureVars
  /\ Quiet
  /\ BagIn(w, inflight)
  /\ w.stage = "write"
  /\ storage' = storage
  /\ call' = IF CallbackThrows(w.cb, fault)
               THEN FinalStageThrows([NoCall EXCEPT !.cb = w.cb], hasHydrated,
                                     initialStateFromPersistentStorage,
                                     finishHydrationListeners, TRUE)
               ELSE FinalStage([NoCall EXCEPT !.cb = w.cb], hasHydrated,
                               initialStateFromPersistentStorage,
                               finishHydrationListeners)
  /\ hasHydrated' = IF CallbackThrows(w.cb, fault)
                       THEN FlagWhenThrown(hasHydrated) ELSE TRUE
  /\ inflight' = inflight (-) SetToBag({w})
  /\ last' = Op("finish", FALSE, FALSE)
  /\ UNCHANGED <<phase, async, options, persistentStorage, state, initialState,
                 initialStateFromPersistentStorage, hydrationListeners,
                 finishHydrationListeners, pending, storageTouched>>

\* the setItem promise of call w resolves: the write is in storage and the
\* last then-stage runs, and the catch after it when the callback throws
HydrateFinish(w, fault) ==
  /\ UNCHANGED pureVars
  /\ Quiet
  /\ BagIn(w, inflight)
  /\ w.stage = "write"
  /\ storage' = [storage EXCEPT ![w.h] = {w.text}]
  /\ call' = IF CallbackThrows(w.cb, fault)
               THEN FinalStageThrows([NoCall EXCEPT !.cb = w.cb], hasHydrated,
                                     initialStateFromPersistentStorage,
                                     finishHydrationListeners, TRUE)
               ELSE FinalStage([NoCall EXCEPT !.cb = w.cb], hasHydrated,
                               initialStateFromPersistentStorage,
                               finishHydrationListeners)
  /\ hasHydrated' = IF CallbackThrows(w.cb, fault)
                       THEN FlagWhenThrown(hasHydrated) ELSE TRUE
  /\ inflight' = inflight (-) SetToBag({w})
  /\ last' = Op("finish", FALSE, FALSE)
  /\ UNCHANGED <<phase, async, options, persistentStorage, state, initialState,
                 initialStateFromPersistentStorage, hydrationListeners,
                 finishHydrationListeners, pending, storageTouched>>

\* ------------------------------------------------------------ persistImpl
\* the store is created: the middleware resolves the storage, wraps set and
\* setState, installs the persist namespace and hydrates once
Construct(cb, fault) ==
  /\ UNCHANGED pureVars
  /\ phase = "new"
  /\ \E h \in {GetStorage(options.getStorage)} :
       /\ persistentStorage' = h
       /\ initialState' = Initial
       /\ IF h = NoStorage
            THEN /\ phase' = "unpersisted"
                 /\ state' = Initial
                 /\ call' = NoCall
                 /\ last' = Op("construct", FALSE, FALSE)
                 /\ UNCHANGED <<storage, initialStateFromPersistentStorage,
                                hasHydrated, inflight, pending, storageTouched>>
            ELSE /\ Hydrate(FALSE, options, h, Initial, state, cb, fault)
                 /\ phase' = IF last'.threw THEN "failed" ELSE "live"
  /\ UNCHANGED <<async, options, hydrationListeners, finishHydrationListeners>>
  /\ NotifyIf(call'.merged.tag = "object")

\* persist.rehydrate()
Rehydrate(cb, fault) ==
  /\ UNCHANGED pureVars
  /\ phase = "live"
  /\ async => Outstanding < MaxAsync
  /\ Hydrate(TRUE, options, persistentStorage, initialState, state, cb, fault)
  /\ UNCHANGED <<phase, async, options, persistentStorage, initialState,
                 hydrationListeners, finishHydrationListeners>>
  /\ NotifyIf(call'.merged.tag = "object")

\* --------------------------------------------------------------- setState
\* the wrapped set and the wrapped setState have the same body
\* a fallback that warns but forgets to hand the update to the store
SetStateDropped(partial, replace) ==
  /\ state' = state
  /\ last' = Op("setState", FALSE, TRUE)
  /\ call' = NoCall
  /\ UNCHANGED <<storage, pending, storageTouched>>

\* the wrapped set / setState without a storage: warn, then the store's own
SetStateUnpersisted(partial, replace) ==
  /\ state' = StoreSetState(state, partial, replace)
  /\ last' = Op("setState", FALSE, TRUE)
  /\ call' = NoCall
  /\ UNCHANGED <<storage, pending, storageTouched>>

\* a wrapper that writes to the storage before it updates the store
SetStateWriteFirst(partial, replace, fault) ==
  \E new \in {StoreSetState(state, partial, replace)} :
  \E w \in {UpdatePersistentStorage(options, persistentStorage, state, fault)} :
     /\ state' = new
     /\ (async /\ w.ok) => Outstanding < MaxAsync
     /\ storage' = IF w.ok /\ ~async
                     THEN [storage EXCEPT ![persistentStorage] = {w.text}]
                     ELSE storage
     /\ pending' = IF w.ok /\ async
                     THEN pending (+) SetToBag({[h |-> persistentStorage, item |-> {w.text}]})
                     ELSE pending
     /\ storageTouched' = (storageTouched \/ w.ok)
     /\ last' = Op("setState",
                   w.outcome = "thrown" /\ ~(async /\ w.at = "setItem"), FALSE)
     /\ call' = [NoCall EXCEPT !.failedAt = w.at]

\* a wrapper that undoes the update of the store when the write fails
SetStateRollsBack(partial, replace, fault) ==
  \E new \in {StoreSetState(state, partial, replace)} :
  \E w \in {UpdatePersistentStorage(options, persistentStorage, new, fault)} :
     /\ state' = IF w.ok THEN new ELSE state
     /\ (async /\ w.ok) => Outstanding < MaxAsync
     /\ storage' = IF w.ok /\ ~async
                     THEN [storage EXCEPT ![persistentStorage] = {w.text}]
                     ELSE storage
     /\ pending' = IF w.ok /\ async
                     THEN pending (+) SetToBag({[h |-> persistentStorage, item |-> {w.text}]})
                     ELSE pending
     /\ storageTouched' = (storageTouched \/ w.ok)
     /\ last' = Op("setState",
                   w.outcome = "thrown" /\ ~(async /\ w.at = "setItem"), FALSE)
     /\ call' = [NoCall EXCEPT !.failedAt = w.at]

\* the wrapped set / setState with a storage: the store's own, then
\* updatePersistentStorage(), whose errors are thrown at once; the setItem of
\* an asynchronous backend fails by a rejected promise, which nobody awaits
SetStatePersisted(partial, replace, fault) ==
  \E new \in {StoreSetState(state, partial, replace)} :
  \E w \in {UpdatePersistentStorage(options, persistentStorage, new, fault)} :
     /\ state' = new
     /\ (async /\ w.ok) => Outstanding < MaxAsync
     /\ storage' = IF w.ok /\ ~async
                     THEN [storage EXCEPT ![persistentStorage] = {w.text}]
                     ELSE storage
     /\ pending' = IF w.ok /\ async
                     THEN pending (+) SetToBag({[h |-> persistentStorage, item |-> {w.text}]})
                     ELSE pending
     /\ storageTouched' = (storageTouched \/ w.ok)
     /\ last' = Op("setState",
                   w.outcome = "thrown" /\ ~(async /\ w.at = "setItem"), FALSE)
     /\ call' = [NoCall EXCEPT !.failedAt = w.at]

SetState(partial, replace, fault) ==
  /\ UNCHANGED pureVars
  /\ phase \in {"unpersisted", "live"}
  /\ replace <=> DOMAIN partial = Keys
  /\ IF phase = "unpersisted"
       THEN SetStateUnpersisted(partial, replace)
       ELSE SetStatePersisted(partial, replace, fault)
  /\ UNCHANGED <<phase, async, options, persistentStorage, initialState,
                 initialStateFromPersistentStorage, hasHydrated,
                 hydrationListeners, finishHydrationListeners, inflight>>
  /\ StoreNotifies

\* a setItem or removeItem of the asynchronous backend takes effect
WriteLands(w) ==
  /\ UNCHANGED pureVars
  /\ Quiet
  /\ BagIn(w, pending)
  /\ storage' = [storage EXCEPT ![w.h] = w.item]
  /\ pending' = pending (-) SetToBag({w})
  /\ last' = Op("write", FALSE, FALSE)
  /\ call' = NoCall
  /\ UNCHANGED <<phase, async, options, persistentStorage, state, initialState,
                 initialStateFromPersistentStorage, hasHydrated,
                 hydrationListeners, finishHydrationListeners, inflight,
                 storageTouched>>

\* ------------------------------------------------- the persist namespace
\* a setOptions that keeps the handle it resolved at construction
SetOptionsStale(newOptions) ==
  /\ UNCHANGED pureVars
  /\ Quiet
  /\ phase = "live"
  /\ options' = [k \in DOMAIN options |->
                   IF k \in DOMAIN newOptions THEN newOptions[k] ELSE options[k]]
  /\ last' = Op("setOptions", FALSE, FALSE)
  /\ call' = NoCall
  /\ UNCHANGED <<phase, async, persistentStorage, storage, state, initialState,
                 initialStateFromPersistentStorage, hasHydrated,
                 hydrationListeners, finishHydrationListeners, inflight,
                 pending, storageTouched>>

\* persist.setOptions(newOptions): options = {...options, ...newOptions} and
\* the storage is asked for again from options.getStorage
SetOptions(newOptions) ==
  /\ UNCHANGED pureVars
  /\ Quiet
  /\ phase = "live"
  /\ options' = [k \in DOMAIN options |->
                   IF k \in DOMAIN newOptions THEN newOptions[k] ELSE options[k]]
  /\ LET threw == options'.getStorage = "throws" IN
       /\ persistentStorage' = IF threw THEN persistentStorage
                               ELSE GetStorage(options'.getStorage)
       /\ last' = Op("setOptions", threw, FALSE)
  /\ call' = [NoCall EXCEPT
                !.getStorages = IF "getStorage" \in DOMAIN options' THEN 1 ELSE 0]
  /\ UNCHANGED <<phase, async, storage, state, initialState,
                 initialStateFromPersistentStorage, hasHydrated,
                 hydrationListeners, finishHydrationListeners, inflight,
                 pending, storageTouched>>

\* a clearStorage that also forgets that the store was hydrated
ClearStorageResets ==
  /\ UNCHANGED pureVars
  /\ Quiet
  /\ phase = "live"
  /\ persistentStorage # NoStorage
  /\ ~async
  /\ storage' = [storage EXCEPT ![persistentStorage] = {}]
  /\ hasHydrated' = FALSE
  /\ storageTouched' = TRUE
  /\ last' = Op("clearStorage", FALSE, FALSE)
  /\ call' = NoCall
  /\ UNCHANGED <<phase, async, options, persistentStorage, state, initialState,
                 initialStateFromPersistentStorage, hydrationListeners,
                 finishHydrationListeners, inflight, pending>>

\* persist.clearStorage(): persistentStorage!.removeItem(options.name)
ClearStorage ==
  /\ UNCHANGED pureVars
  /\ Quiet
  /\ phase = "live"
  /\ LET h == persistentStorage
         ok == h # NoStorage
     IN /\ (async /\ ok) => Outstanding < MaxAsync
        /\ storage' = IF ok /\ ~async THEN [storage EXCEPT ![h] = {}] ELSE storage
        /\ pending' = IF ok /\ async
                        THEN pending (+) SetToBag({[h |-> h, item |-> {}]})
                        ELSE pending
        /\ storageTouched' = (storageTouched \/ ok)
        /\ last' = Op("clearStorage", ~ok, FALSE)
  /\ call' = NoCall
  /\ UNCHANGED <<phase, async, options, persistentStorage, state, initialState,
                 initialStateFromPersistentStorage, hasHydrated,
                 hydrationListeners, finishHydrationListeners, inflight>>

\* persist.onHydrate(listener) / persist.onFinishHydration(listener)
Listen(finish, l) ==
  /\ UNCHANGED pureVars
  /\ Quiet
  /\ phase = "live"
  /\ IF finish
       THEN /\ finishHydrationListeners' = finishHydrationListeners \cup {l}
            /\ UNCHANGED hydrationListeners
       ELSE /\ hydrationListeners' = hydrationListeners \cup {l}
            /\ UNCHANGED finishHydrationListeners
  /\ last' = Op("listen", FALSE, FALSE)
  /\ call' = NoCall
  /\ UNCHANGED <<phase, async, options, persistentStorage, storage, state,
                 initialState, initialStateFromPersistentStorage, hasHydrated,
                 inflight, pending, storageTouched>>

\* an unsubscribe function that leaves the listener in the set
UnlistenKeeps(finish, l) ==
  /\ UNCHANGED pureVars
  /\ Quiet
  /\ phase = "live"
  /\ last' = Op("unlisten", FALSE, FALSE)
  /\ call' = NoCall
  /\ UNCHANGED <<phase, async, options, persistentStorage, storage, state,
                 initialState, initialStateFromPersistentStorage, hasHydrated,
                 hydrationListeners, finishHydrationListeners,
                 inflight, pending, storageTouched>>

\* the function listen returned: listeners.delete(listener)
Unlisten(finish, l) ==
  /\ UNCHANGED pureVars
  /\ Quiet
  /\ phase = "live"
  /\ IF finish
       THEN /\ finishHydrationListeners' = finishHydrationListeners \ {l}
            /\ UNCHANGED hydrationListeners
       ELSE /\ hydrationListeners' = hydrationListeners \ {l}
            /\ UNCHANGED finishHydrationListeners
  /\ last' = Op("unlisten", FALSE, FALSE)
  /\ call' = NoCall
  /\ UNCHANGED <<phase, async, options, persistentStorage, storage, state,
                 initialState, initialStateFromPersistentStorage, hasHydrated,
                 inflight, pending, storageTouched>>

\* ------------------------------------------------------------------- Next
OptionUpdates == {[version |-> v] : v \in Versions}

Next ==
  \/ \E cb \in BOOLEAN, fault \in Faults : Construct(cb, fault)
  \/ \E partial \in Partials, replace \in BOOLEAN, fault \in WriteFaults :
       SetState(partial, replace, fault)
  \/ \E cb \in BOOLEAN, fault \in Faults : Rehydrate(cb, fault)
  \/ \E newOptions \in OptionUpdates : SetOptions(newOptions)
  \/ ClearStorage

Spec == Init /\ [][Next]_vars

\* the operations that register listeners, and those that emit to them
NextEvents ==
  \/ \E cb \in BOOLEAN, fault \in Faults : Construct(cb, fault)
  \/ \E v \in DataVals : SetState([a |-> v], FALSE, "none")
  \/ \E cb \in BOOLEAN, fault \in Faults : Rehydrate(cb, fault)
  \/ \E newOptions \in OptionUpdates : SetOptions(newOptions)
  \/ ClearStorage
  \/ \E finish \in BOOLEAN, l \in Listeners : Listen(finish, l)
  \/ \E finish \in BOOLEAN, l \in Listeners : Unlisten(finish, l)

SpecEvents == InitEvents /\ [][NextEvents]_vars

\* the operations whose steps interleave with the promises of the backend
NextAsync ==
  \/ \E cb \in BOOLEAN, fault \in Faults : Construct(cb, fault)
  \/ \E v \in DataVals, fault \in {"none", "serialize"} :
       SetState([a |-> v], FALSE, fault)
  \/ \E cb \in BOOLEAN, fault \in Faults : Rehydrate(cb, fault)
  \/ \E w \in BagToSet(inflight), fault \in Faults : HydrateResume(w, fault)
  \/ \E w \in BagToSet(inflight) : HydrateFinish(w, "none")
  \/ \E w \in BagToSet(pending) : WriteLands(w)

SpecAsync == InitAsync /\ [][NextAsync]_vars

\* ------------------------------------------------- the store engine's API
StoreExists == phase \in {"live", "unpersisted", "store"}

\* what the store engine's operations leave alone of the middleware
StoreFrame ==
  UNCHANGED <<phase, async, options, persistentStorage, storage, initialState,
              initialStateFromPersistentStorage, hasHydrated,
              hydrationListeners, finishHydrationListeners, inflight,
              pending, storageTouched, call, pureVars>>

\* subscribe(listener) and subscribe(selector, listener) on a store that has
\* not been destroyed: the selector is evaluated on the current state
Subscribe(l) ==
  /\ StoreExists
  /\ ~destroyed
  /\ l \notin DOMAIN storeListeners
  /\ storeListeners' =
       [x \in DOMAIN storeListeners \cup {l} |->
          IF x # l THEN storeListeners[x]
          ELSE IF l = "selected" THEN SliceOf(state) ELSE NoSlice]
  /\ notified' = {}
  /\ last' = Op("subscribe", FALSE, FALSE)
  /\ UNCHANGED <<state, destroyed>>
  /\ StoreFrame

\* the function subscribe returned: removes that listener, idempotent
Unsubscribe(l) ==
  /\ StoreExists
  /\ storeListeners' = [x \in DOMAIN storeListeners \ {l} |-> storeListeners[x]]
  /\ notified' = {}
  /\ last' = Op("unsubscribe", FALSE, FALSE)
  /\ UNCHANGED <<state, destroyed>>
  /\ StoreFrame

\* a destroy() that leaves the listeners registered
DestroyKeeps ==
  /\ StoreExists
  /\ storeListeners' = storeListeners
  /\ destroyed' = TRUE
  /\ notified' = {}
  /\ last' = Op("destroy", FALSE, FALSE)
  /\ UNCHANGED state
  /\ StoreFrame

\* destroy(): clears the listeners
Destroy ==
  /\ StoreExists
  /\ storeListeners' = NoListeners
  /\ destroyed' = TRUE
  /\ notified' = {}
  /\ last' = Op("destroy", FALSE, FALSE)
  /\ UNCHANGED state
  /\ StoreFrame

\* setState(partial, replace) on a store created without the middleware; the
\* argument is a fresh object, so the new state is a new reference
StoreSet(partial, replace) ==
  /\ phase = "store"
  /\ state' = StoreSetState(state, partial, replace)
  /\ StoreNotifies
  /\ last' = Op("setState", FALSE, FALSE)
  /\ StoreFrame

\* a store created without the middleware, in any state
InitStore ==
  /\ phase = "store"
  /\ async = FALSE
  /\ options = defaultOptions
  /\ storage = [h \in Handles |-> {}]
  /\ persistentStorage = NoStorage
  /\ state \in Objs
  /\ initialState = state
  /\ initialStateFromPersistentStorage = Undefined
  /\ hasHydrated = FALSE
  /\ hydrationListeners = {}
  /\ finishHydrationListeners = {}
  /\ inflight = EmptyBag
  /\ pending = EmptyBag
  /\ storageTouched = FALSE
  /\ last = NoOp
  /\ call = NoCall
  /\ InitPure

NextStore ==
  \/ \E partial \in Objs, replace \in BOOLEAN : StoreSet(partial, replace)
  \/ \E l \in StoreListeners : Subscribe(l)
  \/ \E l \in StoreListeners : Unsubscribe(l)
  \/ Destroy

SpecStore == InitStore /\ [][NextStore]_vars

\* a store over an asynchronous backend whose callers subscribe to it and
\* destroy it while its hydration is under way; no hydration is started on a
\* destroyed store, so every pipeline that runs after destroy() was in flight
\* when it was called
InitDestroy == InitAsync /\ async

NextDestroy ==
  \/ Construct(FALSE, "none")
  \/ \E v \in DataVals : SetState([a |-> v], FALSE, "none")
  \/ ~destroyed /\ Rehydrate(FALSE, "none")
  \/ \E w \in BagToSet(inflight) : HydrateResume(w, "none")
  \/ \E w \in BagToSet(inflight) : HydrateFinish(w, "none")
  \/ \E w \in BagToSet(pending) : WriteLands(w)
  \/ \E l \in StoreListeners : Subscribe(l)
  \/ Destroy

SpecDestroy == InitDestroy /\ [][NextDestroy]_vars

\* the partial option records a caller hands to setOptions
AllOptionUpdates ==
  {[version |-> MaxVersion]}
    \cup {[getStorage |-> g] : g \in Handles \cup {"throws", "nothing"}}
    \cup {[getStorage |-> g, version |-> MaxVersion] : g \in Handles}

\* a store about to be created with the default options over a synchronous
\* backend
InitOptions ==
  /\ async = FALSE
  /\ options = defaultOptions
  /\ storage \in {[h \in Handles |-> IF h = options.getStorage THEN item ELSE {}] :
                     item \in {{}, {StoredText(defaultOptions.version)}}}
  /\ InitCommon
  /\ InitPure

\* the operations of a store whose options change while it lives
NextOptions ==
  \/ Construct(FALSE, "none")
  \/ SetState([a |-> MaxVal], FALSE, "none")
  \/ Rehydrate(FALSE, "none")
  \/ \E newOptions \in AllOptionUpdates : SetOptions(newOptions)
  \/ ClearStorage

SpecOptions == InitOptions /\ [][NextOptions]_vars

\* ---------------------------------------------------- chains of thenables
\* a caller about to run thenablify(f)(...a).then(...).catch(...)...
InitChain ==
  /\ chain \in Chains
  /\ thenable = NoThenable
  /\ handlerLog = <<>>
  /\ compared = NoCompare
  /\ storeListeners = NoListeners
  /\ notified = {}
  /\ destroyed = FALSE
  /\ async = FALSE
  /\ options = defaultOptions
  /\ storage = [h \in Handles |-> {}]
  /\ InitCommon

\* thenablify(f)(...a)
ThenablifyCall ==
  /\ thenable = NoThenable
  /\ thenable' = Settle(chain.first, 0)
  /\ UNCHANGED <<chain, handlerLog, compared, persistVars, storeVars>>

\* the next call of the chain, .then(f)
Then ==
  /\ thenable # NoThenable
  /\ Len(handlerLog) < Len(chain.stages)
  /\ LET n == Len(handlerLog) + 1
         h == chain.stages[n]
         r == ThenOf(thenable, h.throws, n)
     IN /\ h.kind = "then"
        /\ thenable' = r.result
        /\ handlerLog' = Append(handlerLog, r)
  /\ UNCHANGED <<chain, compared, persistVars, storeVars>>

\* the next call of the chain, .catch(f)
Catch ==
  /\ thenable # NoThenable
  /\ Len(handlerLog) < Len(chain.stages)
  /\ LET n == Len(handlerLog) + 1
         h == chain.stages[n]
         r == CatchOf(thenable, h.throws, n)
     IN /\ h.kind = "catch"
        /\ thenable' = r.result
        /\ handlerLog' = Append(handlerLog, r)
  /\ UNCHANGED <<chain, compared, persistVars, storeVars>>

NextChain == ThenablifyCall \/ Then \/ Catch

SpecChain == InitChain /\ [][NextChain]_vars

\* ================================================================ claims
\* the operations that run hydrate()
HydrateOps == {"construct", "rehydrate"}

\* the storage entry under options.name is the serialized envelope of the
\* current state
WrittenThrough ==
  storage[persistentStorage] = {JsonStringify(Envelope(options, state))}

\* C1: with a storage and a synchronous serializer and backend, right after a
\* setState call returns and right after a successful rehydrate() returns the
\* storage entry equals
\* serialize({state: partialize(getState()), version: options.version})
C1_WriteThrough ==
  ( /\ phase = "live"
    /\ ~async
    /\ persistentStorage # NoStorage
    /\ \/ last.op = "setState" /\ ~last.threw
       \/ last.op \in HydrateOps /\ call.stage = "done" )
  => WrittenThrough

\* C1 happens: a setState through a partialize that drops a field returned
\* and the entry holds the new state
C1_Witness ==
  /\ phase = "live"
  /\ last.op = "setState"
  /\ ~last.threw
  /\ options.partialize = "pickA"
  /\ state # initialState
  /\ WrittenThrough

\* C2, the states: without a storage no setState throws, each one warns, and
\* the backend is never called
C2_NoStorageState ==
  phase = "unpersisted" =>
    /\ ~storageTouched
    /\ storage = [h \in Handles |-> {}]
    /\ last.op = "setState" => (~last.threw /\ last.warned)

\* C2, the steps: without a storage a setState updates the state as the store
\* alone would
C2_NoStorageStep ==
  phase = "unpersisted" =>
    \A partial \in Partials, replace \in BOOLEAN, fault \in Faults :
      SetState(partial, replace, fault)
        => state' = StoreSetState(state, partial, replace)

\* C2: if options.getStorage throws or returns nothing at construction, every
\* later setState returns without throwing, updates the in-memory state as
\* without the middleware, warns, and no getItem/setItem/removeItem is
\* attempted
C2_Fallback == [](C2_NoStorageState) /\ [][C2_NoStorageStep]_vars

\* C2 happens: the provider threw, a setState warned and changed the state
C2_Witness ==
  /\ phase = "unpersisted"
  /\ options.getStorage = "throws"
  /\ last.op = "setState"
  /\ last.warned
  /\ state # initialState

\* C3: with a synchronous backend the whole pipeline runs before the
\* constructor or rehydrate() returns, and if no stage failed hasHydrated() is
\* true and getState() is the merged state; with an asynchronous backend the
\* call returns while hasHydrated() is false
C3_SyncBeforeReturn ==
  (last.op \in HydrateOps /\ phase = "live") =>
    IF async
      THEN ~hasHydrated /\ call.stage = "get"
      ELSE /\ call.stage \in {"done", "failed"}
           /\ Outstanding = 0
           /\ call.stage = "done" =>
                (hasHydrated /\ call.merged = Obj(state) /\ WrittenThrough)

\* C3 happens: a rehydrate() over a synchronous backend returned with the
\* stored state merged in
C3_Witness ==
  /\ ~async
  /\ last.op = "rehydrate"
  /\ call.stage = "done"
  /\ hasHydrated
  /\ state # initialState
  /\ call.merged = Obj(state)


\* the text stored under options.name before the step, if there is one
StoredNow == CHOOSE t \in storage[persistentStorage'] : TRUE

\* the text stored under options.name after the step, if there is one
StoredNext == CHOOSE t \in storage'[persistentStorage'] : TRUE

\* the step is a call of hydrate() that ran to its last then-stage
HydrateDone == last'.op \in HydrateOps /\ call'.stage = "done"

\* C4: when the storage has no entry under options.name, rehydrate()
\* completes with hasHydrated() true, leaves the in-memory state unchanged and
\* leaves the envelope {state: partialize(state), version: options.version}
\* in the storage
C4_EmptyStorageUnchanged ==
  [][ (last'.op = "rehydrate" /\ call'.stage = "done"
         /\ storage[persistentStorage] = {})
      => ( /\ hasHydrated'
           /\ state' = state
           /\ storage'[persistentStorage] =
                {JsonStringify(Envelope(options, state))} ) ]_vars

HydrateRead ==
  /\ last'.op \in HydrateOps
  /\ call'.stage \in {"done", "failed"}
  /\ storage[persistentStorage'] # {} => StoredNow.wf

\* the stored envelope exists and its version is defined and differs from
\* options.version
VersionMismatch ==
  /\ storage[persistentStorage'] # {}
  /\ StoredNow.ver \notin {NoVersion, options.version}

\* when the stored version is absent or equal to options.version,
\* envelope.state is passed to merge unchanged
RawStateMerged ==
  (storage[persistentStorage'] # {} /\ StoredNow.ver \in {NoVersion, options.version})
    => ( /\ call'.mergeCalled
         /\ call'.mergeArg = Obj(JsonParse(StoredNow).state) )

\* C6 as stated: migrate is invoked if and only if the stored envelope exists,
\* its version is defined and differs from options.version; otherwise
\* envelope.state is passed to merge unchanged
C6_MigrateIffMismatch ==
  [][ HydrateRead =>
        ( /\ call'.migrateCalled <=> VersionMismatch
          /\ RawStateMerged ) ]_vars

\* C6: migrate is invoked if and only if the stored envelope exists, its
\* version is defined and differs from options.version, and a migrate function
\* is configured; when the version is absent or equal, envelope.state is
\* passed to merge unchanged and migrate is not called
C6_MigrateIffMismatchAndConfigured ==
  [][ HydrateRead =>
        ( /\ call'.migrateCalled <=> (VersionMismatch /\ options.migrate)
          /\ RawStateMerged ) ]_vars

\* C6 happens: one rehydrate() read an envelope without a version and passed
\* its state to merge, with a migrate function configured
C6_Witness ==
  /\ last.op = "rehydrate"
  /\ call.stage = "done"
  /\ options.migrate
  /\ ~call.isNull
  /\ call.version = NoVersion
  /\ ~call.migrateCalled
  /\ call.mergeArg.tag = "object"

\* C7: a rehydrate() that finds a stored version that is defined and differs
\* from options.version, with no migrate configured, completes with
\* hasHydrated true, emits an error diagnostic, and leaves getState() as it
\* was immediately before the call
C7_NoMigratorUnchanged ==
  [][ ( /\ last'.op = "rehydrate"
        /\ call'.stage = "done"
        /\ VersionMismatch
        /\ StoredNow.wf
        /\ ~options.migrate )
      => ( /\ hasHydrated'
           /\ call'.errorDiag
           /\ state' = state ) ]_vars

\* a call of hydrate() over the synchronous backend has returned
HydrateReturned ==
  /\ last.op \in HydrateOps
  /\ phase = "live"
  /\ call.stage \in {"done", "failed"}

\* C8 as stated: every call of hydrate() sets hasHydrated to false and then
\* changes it from false to true exactly once
C8_FlipsOncePerCall ==
  HydrateReturned => (call.flips = 1 /\ hasHydrated)

\* C8: every call of hydrate() sets hasHydrated to false at its start; a call
\* in which no stage fails then changes it from false to true exactly once,
\* and a call in which a stage fails leaves it false
C8_FlipsOnceUnlessFailed ==
  HydrateReturned =>
    IF call.stage = "done" THEN call.flips = 1 /\ hasHydrated
                           ELSE call.flips = 0 /\ ~hasHydrated

\* C8 happens: a rehydrate() of a hydrated store failed and the flag is down
C8_Witness ==
  /\ last.op = "rehydrate"
  /\ call.stage = "failed"
  /\ call.failedAt = "merge"
  /\ ~hasHydrated
  /\ initialStateFromPersistentStorage.tag = "object"

\* C9: a failure of deserialize, migrate or merge during hydrate() is not
\* thrown to the caller: the callback returned by onRehydrateStorage receives
\* (undefined, error) once and the finish-hydration listeners are not emitted
C9_FailureToCallback ==
  (last.op \in HydrateOps /\ call.failedAt \in {"deserialize", "migrate", "merge"})
    => ( /\ ~last.threw
         /\ call.stage = "failed"
         /\ ~call.finishEmitted
         /\ call.finishSeen = {}
         /\ Len(call.cbLog) = (IF call.cb THEN 1 ELSE 0)
         /\ \A i \in DOMAIN call.cbLog :
              ~call.cbLog[i].ok /\ call.cbLog[i].st = Undefined )

\* C9 happens: migrate threw in a rehydrate() with a callback and a
\* finish-hydration listener registered
C9_Witness ==
  /\ last.op = "rehydrate"
  /\ call.failedAt = "migrate"
  /\ call.cb
  /\ Len(call.cbLog) = 1
  /\ finishHydrationListeners # {}

\* a successful hydration called the callback of onRehydrateStorage
CallbackRan ==
  /\ last.op \in HydrateOps
  /\ call.stage = "done"
  /\ call.cb

\* C10 as stated: on a successful hydration hasHydrated is true and the
\* finish-hydration listeners have been emitted when the callback is invoked
\* with (mergedState, undefined)
C10_FlagBeforeCallback ==
  CallbackRan =>
    ( /\ Len(call.cbLog) = 1
      /\ call.cbLog[1].ok
      /\ call.cbLog[1].st = call.merged
      /\ call.cbLog[1].hh
      /\ call.cbLog[1].emitted )

\* C10: on a successful hydration the callback is invoked with
\* (mergedState, undefined) first, while hasHydrated() is still false and
\* before the finish-hydration listeners are emitted; the flag is true and
\* the listeners have been emitted with the merged state when the call ends
C10_CallbackBeforeFlag ==
  CallbackRan =>
    ( /\ Len(call.cbLog) = 1
      /\ call.cbLog[1].ok
      /\ call.cbLog[1].st = call.merged
      /\ ~call.cbLog[1].hh
      /\ ~call.cbLog[1].emitted
      /\ hasHydrated
      /\ call.finishEmitted
      /\ call.finishSeen = finishHydrationListeners
      /\ call.finishArg = call.merged )

\* C10 happens: a successful rehydrate() of a hydrated store called the
\* callback and emitted to a finish-hydration listener
C10_Witness ==
  /\ last.op = "rehydrate"
  /\ call.stage = "done"
  /\ call.cb
  /\ Len(call.cbLog) = 1
  /\ call.finishSeen # {}
  /\ hasHydrated


\* the function or handler n of the chain was called and threw
Threw(n) ==
  IF n = 0 THEN chain.first
           ELSE handlerLog[n].invoked /\ chain.stages[n].throws

\* the function or handler n of the chain was called and returned
Returned(n) ==
  IF n = 0 THEN ~chain.first
           ELSE handlerLog[n].invoked /\ ~chain.stages[n].throws

\* no handler strictly between i and j was called
NoneCalledBetween(i, j) ==
  \A k \in (i + 1)..(j - 1) : ~handlerLog[k].invoked

\* C11: in a chain over synchronous functions the handlers run left to right:
\* after a throw every then is skipped up to the next catch, whose handler
\* receives the thrown error; a catch with no pending error does not call its
\* handler and the value passes on to the next then
C11_ChainOrder ==
  thenable # NoThenable =>
    \A j \in DOMAIN handlerLog :
      \A i \in 0..(j - 1) :
        /\ ( /\ Threw(i)
             /\ chain.stages[j].kind = "catch"
             /\ \A k \in (i + 1)..(j - 1) : chain.stages[k].kind = "then" )
           => ( /\ NoneCalledBetween(i, j)
                /\ handlerLog[j].invoked
                /\ handlerLog[j].arg = i )
        /\ ( /\ Returned(i)
             /\ chain.stages[j].kind = "then"
             /\ \A k \in (i + 1)..(j - 1) : chain.stages[k].kind = "catch" )
           => ( /\ NoneCalledBetween(i, j)
                /\ handlerLog[j].invoked
                /\ handlerLog[j].arg = i )

\* C11 happens: a then threw, the next then was skipped and the catch after
\* it received the error
C11_Witness ==
  /\ Len(handlerLog) = 3
  /\ ~chain.first
  /\ chain.stages[1].kind = "then" /\ chain.stages[1].throws
  /\ chain.stages[2].kind = "then"
  /\ chain.stages[3].kind = "catch"
  /\ handlerLog[1].invoked
  /\ ~handlerLog[2].invoked
  /\ handlerLog[3].invoked /\ handlerLog[3].arg = 1


\* C12 as stated: a serialization or storage-write failure on the write path
\* is never thrown out of setState
C12_WriteFailureNotThrown ==
  last.op = "setState" => ~last.threw

\* C12: with a synchronous backend a serializer or a setItem that throws on
\* the write path throws out of setState to its caller, after the in-memory
\* state has been updated and with the storage entry left as it was
C12_WriteFailureThrown ==
  [][ ( /\ last'.op = "setState"
        /\ ~async
        /\ call'.failedAt \in {"serialize", "setItem"} )
      => ( /\ last'.threw
           /\ storage' = storage
           /\ \E partial \in Partials :
                state' = StoreSetState(state, partial, DOMAIN partial = Keys) ) ]_vars

\* C12 happens: a setState threw, the state has the update and the storage
\* entry does not
C12_Witness ==
  /\ phase = "live"
  /\ last.op = "setState"
  /\ last.threw
  /\ call.failedAt = "setItem"
  /\ state # initialState
  /\ storage[persistentStorage] # {}
  /\ ~WrittenThrough


\* options' is options with the keys of newOptions replaced and every other
\* key as it was
OnlySuppliedKeys(newOptions) ==
  /\ DOMAIN options' = DOMAIN options
  /\ \A k \in DOMAIN options :
       options'[k] = IF k \in DOMAIN newOptions THEN newOptions[k] ELSE options[k]

\* the operation of this step went to the handle of the provider in the
\* options and to no other
WentToProvidedHandle ==
  /\ persistentStorage = options.getStorage
  /\ \A h \in Handles \ {options.getStorage} : storage'[h] = storage[h]
  /\ last'.op = "setState" =>
       storage'[options.getStorage] = {JsonStringify(Envelope(options, state'))}
  /\ last'.op = "clearStorage" => storage'[options.getStorage] = {}
  /\ last'.op = "rehydrate" =>
       /\ call'.getItems = 1
       /\ call'.isNull <=> storage[options.getStorage] = {}

\* C13: setOptions(partial) changes the supplied option keys and no other,
\* leaves the in-memory state and hasHydrated alone, and with a getStorage
\* that returns a handle the handle is re-resolved at once: every later read,
\* write and removal goes to the handle of the new provider
C13_SetOptionsFrame ==
  [][ /\ last'.op = "setOptions" =>
           \A newOptions \in AllOptionUpdates :
             SetOptions(newOptions) =>
               ( /\ OnlySuppliedKeys(newOptions)
                 /\ state' = state
                 /\ hasHydrated' = hasHydrated
                 /\ storage' = storage
                 /\ ("getStorage" \in DOMAIN newOptions
                       /\ newOptions.getStorage \in Handles)
                     => persistentStorage' = newOptions.getStorage )
      /\ ( /\ last'.op \in {"setState", "clearStorage", "rehydrate"}
           /\ ~last'.threw
           /\ options.getStorage \in Handles )
         => WentToProvidedHandle ]_vars

\* C13 happens: after setOptions({getStorage}) a setState wrote to the second
\* handle and left the entry of the first as it was
C13_Witness ==
  /\ last.op = "setState"
  /\ ~last.threw
  /\ options.getStorage = "s2"
  /\ persistentStorage = "s2"
  /\ storage["s2"] = {JsonStringify(Envelope(options, state))}
  /\ storage["s1"] # storage["s2"]
  /\ storage["s1"] # {}


\* the listeners of onHydrate or of onFinishHydration before the step
ListenersOf(finish) ==
  IF finish THEN finishHydrationListeners ELSE hydrationListeners

\* the listeners of onHydrate or of onFinishHydration after the step
ListenersAfter(finish) ==
  IF finish THEN finishHydrationListeners' ELSE hydrationListeners'

\* a rehydrate() calls every registered onHydrate listener with the state it
\* starts from, and at its successful end every registered onFinishHydration
\* listener with the merged state; it calls nobody else
EmitsToRegistered ==
  last'.op = "rehydrate" =>
    /\ call'.hydrateSeen = hydrationListeners
    /\ hydrationListeners # {} => call'.hydrateArg = Obj(state)
    /\ IF call'.stage = "done"
         THEN /\ call'.finishSeen = finishHydrationListeners
              /\ call'.finishArg = Obj(state')
              /\ call'.finishArg = call'.merged
         ELSE call'.finishSeen = {}

\* an unsubscribe takes its listener out of the set and leaves the others; a
\* second one changes nothing; only a registration puts a listener in
UnsubscribeRemoves ==
  /\ \A finish \in BOOLEAN, l \in Listeners :
       Unlisten(finish, l) =>
         /\ ListenersAfter(finish) = ListenersOf(finish) \ {l}
         /\ ListenersAfter(~finish) = ListenersOf(~finish)
         /\ l \notin ListenersOf(finish) => ListenersAfter(finish) = ListenersOf(finish)
  /\ \A finish \in BOOLEAN :
       ListenersAfter(finish) \ ListenersOf(finish) # {} => last'.op = "listen"

\* C14: every rehydrate() calls the onHydrate listeners with the current
\* state at its start and, when it succeeds, the onFinishHydration listeners
\* with the merged state; a listener whose unsubscribe function was called is
\* not called by any later rehydrate(), and unsubscribing again has no effect
C14_ListenersEmitted == [][EmitsToRegistered /\ UnsubscribeRemoves]_vars

\* C14 happens: a rehydrate() called one listener at its start and at its
\* end, with different states, and not the other, which is not registered
C14_Witness ==
  /\ last.op = "rehydrate"
  /\ call.stage = "done"
  /\ call.hydrateSeen = {"l1"}
  /\ call.finishSeen = {"l1"}
  /\ call.hydrateArg # call.finishArg
  /\ call.finishArg = Obj(state)


\* C15: clearStorage() removes the entry under options.name and changes
\* nothing else: state, hasHydrated, options and both listener sets stay, and
\* a rehydrate() that follows at once takes the absent-storage path
C15_ClearStorageFrame ==
  [][ /\ (last'.op = "clearStorage" /\ ~last'.threw) =>
           /\ storage'[persistentStorage] = {}
           /\ \A h \in Handles \ {persistentStorage} : storage'[h] = storage[h]
           /\ UNCHANGED <<state, hasHydrated, options, hydrationListeners,
                          finishHydrationListeners, persistentStorage,
                          initialState, phase>>
      /\ (last.op = "clearStorage" /\ ~last.threw /\ last'.op = "rehydrate") =>
           /\ call'.isNull
           /\ call'.mergeArg = Null
           /\ ~call'.migrateCalled
           /\ ~call'.errorDiag ]_vars

\* C15 happens: clearStorage() emptied the entry of a hydrated store whose
\* state had moved on and which has listeners
C15_Witness ==
  /\ last.op = "clearStorage"
  /\ ~last.threw
  /\ storage[persistentStorage] = {}
  /\ hasHydrated
  /\ state # initialState
  /\ hydrationListeners # {}
  /\ finishHydrationListeners # {}

\* C16: destroy() while an asynchronous hydration is in flight neither aborts
\* the pipeline nor makes it fail: destroy() leaves the pending promises
\* alone and does not throw; when the getItem promise resolves afterwards
\* (the stored item being absent or well-formed) no stage fails, the merged
\* state replaces the whole state of the store, the write-back is issued and
\* no listener is notified; when the write-back resolves the item is in the
\* storage and hasHydrated is true
C16_DestroyInFlight ==
  [][ /\ last'.op = "destroy"
         => /\ inflight' = inflight /\ pending' = pending
            /\ ~last'.threw /\ storeListeners' = NoListeners
      /\ ( /\ last'.op = "resume" /\ destroyed
           /\ storage[persistentStorage] # {Garbage} )
         => /\ call'.failedAt = "none"
            /\ call'.merged = Obj(state')
            /\ state' = Spread(initialState, SpreadValue(call'.mergeArg))
            /\ \E w \in BagToSet(inflight') :
                 /\ w.stage = "write" /\ w.h = persistentStorage
                 /\ w.text = Serialize(Envelope(options, state'), "none").text
            /\ notified' = {}
      /\ (last'.op = "finish" /\ destroyed)
         => /\ hasHydrated' /\ ~last'.threw /\ notified' = {}
            /\ \E t \in storage'[persistentStorage] : t.wf ]_vars

\* the store was destroyed with listeners on it while its first hydration
\* was in flight, and that hydration has completed with a stored state
C16_Witness ==
  /\ destroyed /\ last.op = "finish" /\ hasHydrated
  /\ state # initialState
  /\ initialStateFromPersistentStorage = Obj(state)
  /\ storeListeners = NoListeners

\* the members of the persist namespace
StorePersist ==
  {"setOptions", "clearStorage", "rehydrate", "hasHydrated", "onHydrate",
   "onFinishHydration"}

\* store.persist after persistImpl ran: assigned after the early return of
\* the branch without a storage, so only a store with a storage has it
PersistNamespace == IF phase = "live" THEN StorePersist ELSE {}

\* C17: once constructed, every store made through the middleware has the
\* persist namespace with its six members, whatever resolving the storage
\* provider gave
C17_NamespaceAlways ==
  phase \in {"live", "unpersisted"} => PersistNamespace = StorePersist

\* C18: setState(P) without replace gives a state that has P's keys with P's
\* values and every other key of the previous state with its previous value,
\* and no key besides; setState(S, true) gives exactly S
C18_SetStateSemantics ==
  [][ \A P \in Objs, replace \in BOOLEAN :
        StoreSet(P, replace)
          => IF replace
               THEN state' = P
               ELSE /\ DOMAIN state' = DOMAIN state \cup DOMAIN P
                    /\ \A k \in DOMAIN P : state'[k] = P[k]
                    /\ \A k \in DOMAIN state \ DOMAIN P : state'[k] = state[k] ]_vars

\* a store created as {b: fn} holds {a: MaxVal, b: fn} after a setState: a
\* partial update has been merged and a key absent from it has survived
C18_Witness ==
  /\ phase = "store" /\ last.op = "setState"
  /\ initialState = [b \in {"b"} |-> FnVal]
  /\ state = [k \in Keys |-> IF k = "a" THEN MaxVal ELSE FnVal]

\* C19: on a destroyed store every setState still sets the state as it does
\* on a live one, does not throw and invokes no listener, plain or
\* selector-based; a second destroy() changes nothing
C19_AfterDestroy ==
  [][ destroyed
        => /\ \A P \in Objs, replace \in BOOLEAN :
                StoreSet(P, replace)
                  => /\ state' = IF replace THEN P ELSE Spread(state, P)
                     /\ ~last'.threw
                     /\ notified' = {}
           /\ last'.op = "destroy"
                => /\ ~last'.threw /\ destroyed'
                   /\ UNCHANGED <<state, storeListeners>> ]_vars

\* a setState on a destroyed store has changed field a, which the selector
\* of the selector-based listener reads, and nobody was invoked
C19_Witness ==
  /\ phase = "store" /\ destroyed /\ last.op = "setState"
  /\ SliceOf(state) # SliceOf(initialState)
  /\ notified = {}

\* ------------------------------------------------ calls of the comparator
\* a caller about to compare two plain objects
InitShallow ==
  /\ compared \in {[a |-> x, b |-> y, done |-> FALSE, result |-> FALSE] :
                     x \in ShallowArgs, y \in ShallowArgs}
  /\ compared.a.id = compared.b.id => compared.a.obj = compared.b.obj
  /\ chain = NoChain
  /\ thenable = NoThenable
  /\ handlerLog = <<>>
  /\ storeListeners = NoListeners
  /\ notified = {}
  /\ destroyed = FALSE
  /\ async = FALSE
  /\ options = defaultOptions
  /\ storage = [h \in Handles |-> {}]
  /\ InitCommon

\* shallow(a, b)
ShallowCall ==
  /\ ~compared.done
  /\ compared' = [compared EXCEPT !.done = TRUE,
                                  !.result = Shallow(compared.a, compared.b)]
  /\ UNCHANGED <<chain, thenable, handlerLog, persistVars, storeVars>>

NextShallow == ShallowCall

SpecShallow == InitShallow /\ [][NextShallow]_vars

\* C20: on two plain objects the comparator answers true exactly when they
\* have the same number of keys and every key of the first is a key of the
\* second with a reference-equal value; two objects whose sets of keys
\* differ compare unequal
C20_ShallowPlainObjects ==
  (compared.done /\ compared # NoCompare)
    => LET a == compared.a.obj
           b == compared.b.obj
       IN /\ compared.result
               <=> /\ Cardinality(DOMAIN a) = Cardinality(DOMAIN b)
                   /\ \A k \in DOMAIN a : k \in DOMAIN b /\ a[k] = b[k]
          /\ DOMAIN a # DOMAIN b => ~compared.result

\* two objects with the same keys compared unequal because under one key
\* they hold two references, to values with the same contents
C20_Witness ==
  /\ compared.done /\ ~compared.result
  /\ DOMAIN compared.a.obj = ShallowKeys
  /\ DOMAIN compared.b.obj = ShallowKeys
  /\ compared.a.obj["asd"] = compared.b.obj["asd"]
  /\ compared.a.obj["foo"] = Ref(1)
  /\ compared.b.obj["foo"] = Ref(2)
  /\ Content(1) = Content(2)

\* --------------------------------- the comparator on types it does not list
\* a Date: an object without own enumerable keys, its time in a slot the
\* comparator does not enumerate
Dates ==
  {[id |-> i, proto |-> "Date", obj |-> <<>>, time |-> t] :
     i \in 1..MaxRef, t \in DataVals}

\* a URLSearchParams with its entries
SearchParams ==
  {[id |-> i, proto |-> "URLSearchParams", obj |-> o, time |-> 0] :
     i \in 1..MaxRef, o \in PlainObjs}

\* a caller about to compare two values of one such type: the same value
\* when the identities are the same; two URLSearchParams of distinct
\* identities differ in their entries, as the ones the test suite compares
InitUncovered ==
  /\ compared \in {[a |-> x, b |-> y, done |-> FALSE, result |-> FALSE] :
                     x \in Dates \cup SearchParams,
                     y \in Dates \cup SearchParams}
  /\ compared.a.proto = compared.b.proto
  /\ compared.a.id = compared.b.id => compared.a = compared.b
  /\ (compared.a.proto = "URLSearchParams" /\ compared.a.id # compared.b.id)
       => compared.a.obj # compared.b.obj
  /\ chain = NoChain
  /\ thenable = NoThenable
  /\ handlerLog = <<>>
  /\ storeListeners = NoListeners
  /\ notified = {}
  /\ destroyed = FALSE
  /\ async = FALSE
  /\ options = defaultOptions
  /\ storage = [h \in Handles |-> {}]
  /\ InitCommon

SpecUncovered == InitUncovered /\ [][NextShallow]_vars

Uncovered == compared.done /\ "proto" \in DOMAIN compared.a

NextAsyncEvents ==
  \/ Construct(FALSE, "none")
  \/ \E v \in DataVals : SetState([a |-> v], FALSE, "none")
  \/ Rehydrate(FALSE, "none")
  \/ \E w \in BagToSet(inflight) : HydrateResume(w, "none")
  \/ \E w \in BagToSet(inflight) : HydrateFinish(w, "none")
  \/ \E w \in BagToSet(pending) : WriteLands(w)
  \/ Listen(TRUE, "l1")

SpecAsyncEvents == InitAsync /\ [][NextAsyncEvents]_vars

\* the text of the envelope of state st under the current options
EnvelopeText(st) == Serialize(Envelope(options, st), "none").text

\* C22 as stated: whenever a post-hydration listener runs, getState() is the
\* merged state it receives and the storage holds the envelope of that state
C22_ListenerObservesMerged ==
  [][ ( /\ last'.op \in {"rehydrate", "finish"}
        /\ call'.stage = "done" /\ call'.finishSeen # {} )
      => ( /\ call'.finishArg = Obj(state')
           /\ storage'[persistentStorage] = {EnvelopeText(state')} ) ]_vars

\* C22: in a successful hydration the merged state replaces the state of
\* the store before the write-back is issued, with the flag, the callback
\* and the listeners untouched; the write-back is in the storage when the
\* flag is set and the listeners run; with a synchronous backend the
\* listeners then see getState() equal to the merged state they receive and
\* the storage holding its envelope
C22_ApplyWriteFinish ==
  [][ /\ (last'.op = "resume" /\ call'.stage = "write")
         => /\ call'.merged = Obj(state')
            /\ UNCHANGED <<storage, hasHydrated>>
            /\ ~call'.finishEmitted /\ call'.cbLog = <<>>
            /\ \E w \in BagToSet(inflight') :
                 w.stage = "write" /\ w.text = EnvelopeText(state')
      /\ last'.op = "finish"
         => /\ hasHydrated' /\ call'.finishEmitted
            /\ call'.finishSeen = finishHydrationListeners
            /\ call'.finishArg = initialStateFromPersistentStorage
            /\ \E w \in BagToSet(inflight) :
                 w.stage = "write" /\ storage'[w.h] = {w.text}
      /\ (~async /\ last'.op \in {"construct", "rehydrate"}
                 /\ call'.stage = "done")
         => /\ hasHydrated'
            /\ call'.finishArg = Obj(state') /\ call'.finishArg = call'.merged
            /\ storage'[persistentStorage'] = {EnvelopeText(state')} ]_vars

\* over an asynchronous backend a hydration has ended with a listener
\* registered, which saw the merged state as getState() and its envelope in
\* the storage
C22_Witness ==
  /\ async /\ last.op = "finish" /\ call.finishSeen # {}
  /\ call.finishArg = Obj(state)
  /\ state # initialState
  /\ storage[persistentStorage] = {EnvelopeText(state)}

\* C23: every rehydrate() calls getItem once and setItem at most once; it
\* calls setItem only when the read, deserialize, the version stage and
\* merge have all succeeded; when one of them fails the state of the store
\* and the storage entry are as they were before the call
C23_PipelineCalls ==
  [][ (last'.op = "rehydrate" /\ ~async)
      => /\ call'.getItems = 1
         /\ call'.setItems \in {0, 1}
         /\ call'.setItems = 1
              => /\ call'.failedAt = "none"
                 /\ call'.mergeCalled /\ call'.merged.tag = "object"
         /\ call'.failedAt \in {"getItem", "deserialize", "migrate", "merge"}
              => /\ call'.setItems = 0
                 /\ state' = state /\ storage' = storage ]_vars

\* a rehydrate() of a store that has moved off its initial state failed in
\* migrate: no setItem, the state still off the initial state
C23_Witness ==
  /\ last.op = "rehydrate" /\ ~async
  /\ call.failedAt = "migrate" /\ call.migrateCalled
  /\ call.getItems = 1 /\ call.setItems = 0
  /\ state # initialState

\* -------------------------------------------- writes that fail, listeners
\* a store with subscribers whose serializer or backend may fail on a write
NextWriteFaults ==
  \/ Construct(FALSE, "none")
  \/ \E v \in DataVals, fault \in WriteFaults : SetState([a |-> v], FALSE, fault)
  \/ \E w \in BagToSet(inflight) : HydrateResume(w, "none")
  \/ \E w \in BagToSet(inflight) : HydrateFinish(w, "none")
  \/ \E w \in BagToSet(pending) : WriteLands(w)
  \/ \E l \in StoreListeners : Subscribe(l)

SpecWriteFaults == InitAsync /\ [][NextWriteFaults]_vars

\* C24: a setState whose write fails in serialize or in setItem, by a throw
\* or by a rejected promise, still leaves the store with the new state, has
\* notified the listeners of the store, and leaves hasHydrated and the
\* storage entry as they were
C24_WriteFailureKeepsUpdate ==
  [][ \A v \in DataVals, fault \in {"serialize", "setItem"} :
        (phase = "live" /\ SetState([a |-> v], FALSE, fault))
          => /\ state' = Spread(state, [a |-> v])
             /\ notified' = Invoked(storeListeners, state')
             /\ "plain" \in DOMAIN storeListeners => "plain" \in notified'
             /\ UNCHANGED <<hasHydrated, storage, pending>> ]_vars

\* a hydrated store with both listeners on it was set to a new value of a
\* by a setState whose setItem failed: both listeners were invoked
C24_Witness ==
  /\ phase = "live" /\ last.op = "setState"
  /\ call.failedAt = "setItem"
  /\ hasHydrated
  /\ state.a = MaxVal /\ state # initialState
  /\ notified = StoreListeners

\* ------------------------------------- the persist variant of part_000
\* the store handle handed to the middleware: which function each of its
\* members is
ParentStore ==
  [setState |-> "store", getState |-> "store", subscribe |-> "store",
   destroy |-> "store"]

\* update(t, k, replacer) of persist.ts: Object.assign(t, { [k]: ... })
Update(t, k, replaced) ==
  [x \in DOMAIN t \cup {k} |-> IF x = k THEN replaced ELSE t[x]]

\* update(t, k, replacer) of part_000: Object.assign(t, { k: ... }), which
\* assigns the member named "k"
UpdatePart000(t, k, replaced) ==
  [x \in DOMAIN t \cup {"k"} |-> IF x = "k" THEN replaced ELSE t[x]]

\* the store handle after persistImpl of part_000 ran on it
HandlePart000 == UpdatePart000(ParentStore, "setState", "wrapped")

\* setState of that handle, called after construction: the wrapper when the
\* handle's member is the wrapper, else the store's own setState, which
\* neither writes to the storage nor warns
HandleSetState(partial, replace) ==
  IF HandlePart000["setState"] = "wrapped"
    THEN SetState(partial, replace, "none")
    ELSE /\ phase \in {"unpersisted", "live"}
         /\ replace <=> DOMAIN partial = Keys
         /\ state' = StoreSetState(state, partial, replace)
         /\ StoreNotifies
         /\ last' = Op("setState", FALSE, FALSE)
         /\ call' = NoCall
         /\ UNCHANGED <<phase, async, options, persistentStorage, storage,
                        initialState, initialStateFromPersistentStorage,
                        hasHydrated, hydrationListeners,
                        finishHydrationListeners, inflight, pending,
                        storageTouched, pureVars>>

\* the variant over a synchronous backend: the set function handed to the
\* initializer, the handle's setState, rehydrate and clearStorage
NextPart000 ==
  \/ Construct(FALSE, "none")
  \/ \E v \in DataVals : SetState([a |-> v], FALSE, "none")
  \/ \E partial \in Partials : HandleSetState(partial, DOMAIN partial = Keys)
  \/ Rehydrate(FALSE, "none")
  \/ ClearStorage

SpecPart000 == Init /\ [][NextPart000]_vars

\* C25: in the variant of part_000 a setState of the store handle made
\* after construction leaves the storage entry holding the envelope of the
\* new state, and without a storage it warns
C25_HandleSetStatePersists ==
  [][ \A partial \in Partials :
        HandleSetState(partial, DOMAIN partial = Keys)
          => /\ phase = "live"
                  => storage'[persistentStorage] = {EnvelopeText(state')}
             /\ phase = "unpersisted" => last'.warned ]_vars

\* C26: a setOptions whose argument has no getStorage key does not call the
\* storage provider, does not throw on its account and leaves the storage
\* handle as it was
C26_NoReinvocation ==
  [][ \A newOptions \in AllOptionUpdates :
        ("getStorage" \notin DOMAIN newOptions /\ SetOptions(newOptions))
          => /\ call'.getStorages = 0
             /\ ~last'.threw
             /\ persistentStorage' = persistentStorage ]_vars

\* ------------------------------------------- callbacks that throw
\* what may throw in a hydration whose hook returned a callback: merge, or
\* the callback when it is called with the merged state
CallbackFaults == {"none", "merge", "callback"}

\* a store whose onRehydrateStorage hook returns a callback, over a backend
\* that is synchronous or asynchronous
NextCallbacks ==
  \/ \E fault \in CallbackFaults : Construct(TRUE, fault)
  \/ \E v \in DataVals : SetState([a |-> v], FALSE, "none")
  \/ \E cb \in BOOLEAN, fault \in CallbackFaults : Rehydrate(cb, fault)
  \/ \E w \in BagToSet(inflight), fault \in {"none", "merge"} :
       HydrateResume(w, fault)
  \/ \E w \in BagToSet(inflight), fault \in {"none", "callback"} :
       HydrateFinish(w, fault)
  \/ \E w \in BagToSet(pending) : WriteLands(w)

SpecCallbacks == InitAsync /\ [][NextCallbacks]_vars

\* C27: a hydration whose hook returned a callback calls it once by its
\* end, with the merged state or with the error, also when the callback
\* throws
C27_CallbackOnce ==
  [][ ( /\ last'.op \in {"rehydrate", "finish"}
        /\ call'.cb
        /\ call'.stage \in {"done", "failed", "thrown"} )
      => /\ Len(call'.cbLog) = 1
         /\ call'.cbLog[1].ok <=> call'.cbLog[1].st # Undefined ]_vars

\* the hydration pipelines that have not settled
PipelinesInFlight == BagCardinality(inflight)

\* C28 as stated: hasHydrated is false whenever a pipeline is in flight
C28_FalseWhileInFlight ==
  PipelinesInFlight > 0 => ~hasHydrated

\* C28: over an asynchronous backend every start of a hydration sets
\* hasHydrated to false and no step but the completion of a pipeline sets it
\* to true, so it is false from the start of a pipeline until a pipeline
\* completes; the completion of one pipeline sets it to true also when
\* another pipeline is still in flight
C28_FalseUntilACompletion ==
  [][ async
      => /\ ( /\ last'.op \in {"construct", "rehydrate"}
              /\ PipelinesInFlight' > PipelinesInFlight )
            => ~hasHydrated'
         /\ (hasHydrated' /\ ~hasHydrated) => last'.op = "finish"
         /\ last'.op = "finish" => hasHydrated'
         /\ (PipelinesInFlight = 1 /\ PipelinesInFlight' = 1
               /\ last'.op # "rehydrate" /\ ~hasHydrated)
            => ~hasHydrated' ]_vars

\* two pipelines overlapped: one has completed and set the flag while the
\* other is still in flight
C28_Witness ==
  /\ async /\ last.op = "finish"
  /\ PipelinesInFlight > 0
  /\ hasHydrated

\* merge(persistedOrMigratedState, initialState) with the default merge
MergedOntoInitial(persisted) == Spread(initialState, SpreadValue(persisted))

RoundTripOptions ==
  {[defaultOptions EXCEPT !.migrate = m] : m \in BOOLEAN}

\* the arguments of a setState that merges: one field, set to a number, to
\* the function the initializer gave or to another function
RoundTripPartials ==
  {p \in Partials : DOMAIN p # Keys} \cup {[b \in {"b"} |-> OtherFn]}

\* a store about to be created with the default partialize and merge over
\* a synchronous backend
InitRoundTrip ==
  /\ async = FALSE
  /\ options \in RoundTripOptions
  /\ storage \in InitialStorage(options.getStorage)
  /\ InitCommon
  /\ InitPure

NextRoundTrip ==
  \/ \E cb \in BOOLEAN : Construct(cb, "none")
  \/ \E partial \in RoundTripPartials : SetState(partial, FALSE, "none")
  \/ \E cb \in BOOLEAN : Rehydrate(cb, "none")
  \/ Subscribe("plain")

SpecRoundTrip == InitRoundTrip /\ [][NextRoundTrip]_vars

\* the fields of a state that hold a function
FunctionFields(o) == {k \in DOMAIN o : o[k] \in FnVals}

InitWrites == InitAsync /\ async

\* the operations of a store over an asynchronous backend whose callers
\* call setState in succession once the first hydration has settled; the
\* promises of the setItem calls resolve in any order
NextWrites ==
  \/ Construct(FALSE, "none")
  \/ \E w \in BagToSet(inflight) : HydrateResume(w, "none")
  \/ \E w \in BagToSet(inflight) : HydrateFinish(w, "none")
  \/ \E partial \in {p \in Partials : DOMAIN p # Keys} :
       inflight = EmptyBag /\ SetState(partial, FALSE, "none")
  \/ \E w \in BagToSet(pending) : WriteLands(w)

SpecWrites == InitWrites /\ [][NextWrites]_vars

\* the write a setState starts for state st
WriteOf(st) == [h |-> persistentStorage, item |-> {EnvelopeText(st)}]

\* C31 as stated: when the last pending write of the setState calls lands,
\* the storage entry is the envelope of the latest in-memory state
C31_LatestStateLands ==
  [][ (last'.op = "write" /\ pending' = EmptyBag)
      => storage'[persistentStorage] = {EnvelopeText(state')} ]_vars

\* C31: over an asynchronous backend every setState starts a write that
\* carries the envelope of the state that call produced and leaves the
\* storage as it is; the writes land in any order and each one replaces the
\* entry with what it carries, so the entry is the envelope of the latest
\* state when the write of the latest setState is the one that lands last,
\* as it is when a setState's write is the only one pending
C31_LastLandedWriteWins ==
  [][ /\ last'.op = "setState"
         => /\ pending' = pending (+) SetToBag({WriteOf(state')})
            /\ storage' = storage
      /\ last'.op = "write"
         => \E w \in BagToSet(pending) :
              /\ pending' = pending (-) SetToBag({w})
              /\ storage' = [storage EXCEPT ![w.h] = w.item]
      /\ (last.op = "setState" /\ last'.op = "write"
            /\ BagCardinality(pending) = 1)
         => storage'[persistentStorage] = {EnvelopeText(state')} ]_vars

\* every write of the setState calls has landed and the storage entry is
\* the envelope of an earlier state: the write of an earlier setState landed
\* after the write of a later one
C31_Witness ==
  /\ async /\ phase = "live"
  /\ last.op = "write"
  /\ pending = EmptyBag /\ inflight = EmptyBag
  /\ storage[persistentStorage] # {EnvelopeText(state)}
  /\ \E partial \in {p \in Partials : DOMAIN p # Keys} :
       storage[persistentStorage] = {EnvelopeText(Spread(state, partial))}

====
